---- MODULE Spec2Model ----
(***************************************************************************)
(* Pet behaviour and animation engine of DeskPets (src/DeskPets_repo).     *)
(* One agent (class Pet, pets.py) is driven by the polled pointer: drag,   *)
(* throw, reactive "lie" override, cycle completion, climb chain, lateral  *)
(* partition clamp, frame loading.                                         *)
(*                                                                         *)
(* Positions and velocities are Python floats once a throw has acted; the  *)
(* model holds them in fixed point, FP units per pixel, products rounded   *)
(* towards zero.  Widths, heights and pointer coordinates are pixels.      *)
(***************************************************************************)
EXTENDS Integers, Sequences, FiniteSets, TLC

\* ------------------------------------------------------------------ values
None == 0 - 1                 \* Python None in a numeric attribute
FP == 100                     \* fixed-point units per pixel
Fine == 10000                 \* units per pixel where a decay is followed to its end

Abs(v) == IF v < 0 THEN 0 - v ELSE v
Max(a, b) == IF a >= b THEN a ELSE b
Min(a, b) == IF a <= b THEN a ELSE b
\* v * n / d as the float product, rounded towards zero
Scale(v, n, d) == IF v >= 0 THEN (v * n) \div d ELSE 0 - (((0 - v) * n) \div d)

\* ------------------------------------------------------------ environment
screen_width == 160           \* user32.GetSystemMetrics(0)
screen_height == 100          \* user32.GetSystemMetrics(1)
taskbar_height == 8           \* Windows.taskbar_settings()
fps == 3                      \* Pet(..., fps, ...)

\* The pointer samples the model draws from: inside the resting agent and
\* near its origin (PtInside), inside it but far from its origin (PtGrab),
\* off screen beyond the bottom-right corner (PtOff) and off screen beyond
\* the top-left corner (PtNeg).
PtInside == <<132, 74>>
PtGrab == <<156, 90>>
PtOff == <<162, 101>>
PtNeg == <<0 - 3, 0 - 2>>
Pointers == {PtInside, PtOff}
DragPointers == {PtGrab, PtOff, PtNeg}

\* -------------------------------------------------------------- PETS_DATA
Gif(n, w, h) == [n |-> n, w |-> w, h |-> h]
Dflt(hold, ms, sa) == [hold |-> hold, movement_speed |-> ms, speed_animation |-> sa]

\* speed_animation is held in tenths (0.5 -> 5, 1.0 -> 10).
\* A gif with n = 0 is a frame sequence that is empty or fails to load.
\* The squirrel's lie is a still: its speed_animation is exactly 0.
PETS_DATA ==
  [ cat |->
      [ has_defaults |-> TRUE,
        states |-> ( "idle" :> Gif(2, 30, 20) @@ "walk" :> Gif(3, 36, 30)
                  @@ "lie" :> Gif(2, 32, 16) @@ "with_ball" :> Gif(2, 30, 20) ),
        defaults |-> ( "idle" :> Dflt(2, 0, 5) @@ "walk" :> Dflt(2, 5, 10)
                    @@ "lie" :> Dflt(2, 0, 10) @@ "with_ball" :> Dflt(2, 0, 10) ) ],
    squirrel |->
      [ has_defaults |-> TRUE,
        states |-> ( "idle" :> Gif(2, 30, 20) @@ "lie" :> Gif(2, 32, 16)
                  @@ "wallclimb" :> Gif(2, 24, 20) @@ "walldig" :> Gif(2, 30, 20)
                  @@ "wallgrab" :> Gif(2, 24, 20) @@ "wallnap" :> Gif(2, 30, 20)
                  @@ "fall_from_grab" :> Gif(2, 24, 20) ),
        defaults |-> ( "idle" :> Dflt(2, 0, 5) @@ "lie" :> Dflt(2, 0, 0) ) ],
    dog |->
      [ has_defaults |-> FALSE,
        states |-> ( "idle" :> Gif(2, 30, 20) @@ "lie" :> Gif(2, 32, 16)
                  @@ "swipe" :> Gif(0, 30, 20) ),
        defaults |-> << >> ] ]


\* ------------------------------------------------------------------ State
State(name, gif, hold, movement_speed, speed_animation, direction) ==
  [ name |-> name, gif |-> gif, hold |-> hold, movement_speed |-> movement_speed,
    speed_animation |-> speed_animation, direction |-> direction, counter |-> 0 ]

NoState == State("", "", 0, 0, 0, 0)

\* -------------------------------------------------------------------- Pet
\* The exclusion list with "with_ball" forgotten.
StandingExclusion_NoBall ==
  {"wallclimb", "walldig", "wallgrab", "wallnap", "fall_from_grab"}

\* The standing exclusion list of Pet.__init__ and Pet.update_state.
StandingExclusion ==
  {"with_ball", "wallclimb", "walldig", "wallgrab", "wallnap", "fall_from_grab"}

lie_duration == 24

\* self.STATES_INFO as Pet.__init__ builds it from PETS_DATA[species].
STATES_INFO(species) ==
  LET species_data == PETS_DATA[species]
      has(state_name) == species_data.has_defaults
                         /\ state_name \in DOMAIN species_data.defaults
  IN [ state_name \in DOMAIN species_data.states |->
         [ gif |-> state_name,
           hold |-> IF has(state_name)
                    THEN species_data.defaults[state_name].hold ELSE fps,
           movement_speed |-> IF has(state_name)
                    THEN species_data.defaults[state_name].movement_speed ELSE 0,
           speed_animation |-> IF has(state_name)
                    THEN species_data.defaults[state_name].speed_animation ELSE 10 ] ]

\* The candidates with the exclusions never removed.
random_state_keys_NoRemove(info, exception) == DOMAIN info

\* The candidate names random.choice draws from.
random_state_keys(info, exception) ==
  LET keys == DOMAIN info \ exception
  IN IF keys = {} THEN DOMAIN info ELSE keys

\* Pet.random_state with the two random draws made explicit: name is the
\* draw among the candidates, direction the draw among {-1, 1}.  With no
\* candidate random.choice raises and the method returns None (NoState).
random_state(info, exception, name, direction) ==
  IF name \in random_state_keys(info, exception)
  THEN State(name, info[name].gif, info[name].hold, info[name].movement_speed,
             info[name].speed_animation, direction)
  ELSE NoState

\* new_height of Pet.frame_animation; None for a size that names no bucket.
SizeHeight(size, orig_height) ==
  CASE size = "very small" -> 20
    [] size = "small" -> 40
    [] size = "original" -> orig_height
    [] size = "medium" -> 125
    [] size = "big" -> 150
    [] size = "really big" -> 200
    [] OTHER -> None

\* GifHelper.load_gif_frames(self.state.gif): the frames of the state's gif.
load_gif_frames(species, gif) ==
  IF gif \in DOMAIN PETS_DATA[species].states
  THEN PETS_DATA[species].states[gif] ELSE Gif(0, 0, 0)

\* Pet.frame_animation.  self.frames is held as the gif it was loaded from
\* and its length.  With no frame (or no bucket) the method raises after
\* self.frames = [] and everything else keeps its old value.
frame_animation(p) ==
  LET f == load_gif_frames(p.species, p.state.gif)
      new_height == SizeHeight(p.size, f.h)
  IN IF f.n = 0 \/ new_height = None
     THEN [p EXCEPT !.frames = [gif |-> p.state.gif, n |-> 0]]
     ELSE [p EXCEPT !.frames = [gif |-> p.state.gif, n |-> f.n],
                    !.height_lie = new_height,
                    !.width = (f.w * new_height) \div f.h,
                    !.height = new_height,
                    !.frame_count = f.n,
                    !.current_frame = 0,
                    !.state.counter = 0,
                    !.frame_interval =
                       IF p.state.speed_animation # 0
                       THEN 10000 \div (fps * p.state.speed_animation)
                       ELSE p.frame_interval]

\* Pet.__init__.  When the first frame_animation fails, width and height are
\* still None, line 67 raises, and the attributes of lines 65-84 are never
\* set: the object is left unconstructed.  For a species the catalog does not
\* hold line 49 raises, with the same outcome and no state at all.  Either
\* way the handler of line 85 swallows the exception and the constructor
\* returns the object.
PetInit(species, size, name, direction) ==
  LET known == species \in DOMAIN PETS_DATA
      p0 == [ constructed |-> FALSE,
              species |-> species, size |-> size,
              hbitmaps |-> "None", hwnd |-> FALSE,
              frame_interval |-> None, current_frame |-> None,
              frame_count |-> None, height |-> None, width |-> None,
              frames |-> [gif |-> "", n |-> None],
              dragging |-> FALSE, drag_offset |-> <<0, 0>>,
              drag_last_pos |-> << >>, throw_velocity |-> <<0, 0>>,
              right_click_consumed |-> FALSE,
              state |-> IF known
                        THEN random_state(STATES_INFO(species), StandingExclusion,
                                          name, direction)
                        ELSE NoState,
              x |-> None, y |-> None, y_def |-> None,
              immunity |-> FALSE, wall_scene_step |-> None,
              height_lie |-> None ]
      p1 == IF known THEN frame_animation(p0) ELSE p0
      y0 == (screen_height - p1.height - taskbar_height) * FP
  IN IF p1.height = None
     THEN p1
     ELSE [p1 EXCEPT !.constructed = TRUE,
                     !.y_def = y0, !.y = y0,
                     !.x = (screen_width - p1.width) * FP,
                     !.hwnd = TRUE,
                     !.height_lie = 20]

\* State.next(pet): one tick of the active state.  The counter advances, the
\* agent moves by movement_speed in its direction, and the cycle is complete
\* when the counter reaches hold.
next(p) ==
  LET c == p.state.counter + 1
  IN [ pet |-> [p EXCEPT !.state.counter = c,
                         !.x = @ + p.state.movement_speed * p.state.direction * FP],
       ret |-> c >= p.state.hold ]

\* The fixed order of the climb chain.
ClimbChain == <<"wallclimb", "walldig", "wallgrab", "wallnap", "fall_from_grab">>

ChainState(p, step) ==
  LET info == STATES_INFO(p.species)[ClimbChain[step + 1]]
  IN State(ClimbChain[step + 1], info.gif, info.hold, info.movement_speed,
           info.speed_animation, p.state.direction)

\* go_climb(pet): on a cycle completion of a climber either enters the chain
\* at its first step (rnd.climb) or selects a random state as other species do.
go_climb(p, rnd) ==
  IF rnd.climb /\ ClimbChain[1] \in DOMAIN STATES_INFO(p.species)
  THEN [p EXCEPT !.wall_scene_step = 0, !.state = ChainState(p, 0)]
  ELSE [p EXCEPT !.state = random_state(STATES_INFO(p.species), StandingExclusion,
                                        rnd.name, rnd.direction)]

\* squirrel_climb(pet): one tick inside the chain.  When the current step's
\* cycle completes the chain advances by one step; after the last step the
\* chain is left and the next state is a random selection.
squirrel_climb(p, rnd) ==
  LET n == next(p)
      step == p.wall_scene_step + 1
  IN IF ~n.ret THEN n.pet
     ELSE IF step < Len(ClimbChain)
     THEN frame_animation([n.pet EXCEPT !.wall_scene_step = step,
                                        !.state = ChainState(p, step)])
     ELSE frame_animation(
            [n.pet EXCEPT !.wall_scene_step = None,
                          !.state = random_state(STATES_INFO(p.species),
                                       StandingExclusion, rnd.name, rnd.direction)])

\* _apply_throw with the zeroing of line 208 left out.
_apply_throw_NoZero(p) ==
  LET vx == p.throw_velocity[1]
      vy == p.throw_velocity[2]
      max_x == (screen_width - p.width) * FP
      max_y == (screen_height - p.height) * FP
  IN IF Abs(vx) < (2 * FP) \div 10 /\ Abs(vy) < (2 * FP) \div 10
     THEN [pet |-> p, ret |-> FALSE]
     ELSE [pet |-> [p EXCEPT !.x = Max(0, Min(p.x + vx, max_x)),
                             !.y = Max(0, Min(p.y + vy, max_y)),
                             !.throw_velocity = <<Scale(vx, 85, 100), Scale(vy, 85, 100)>>],
           ret |-> TRUE]

\* A bounce that keeps the whole speed.
bounce_Elastic(v) == 0 - v

\* The velocity of an axis that met an edge (lines 221, 224, 227, 230).
bounce(v) == 0 - Scale(v, 6, 10)

\* The throw step with a damping of 0.9 in place of the 0.85 of lines 214-215.
_apply_throw_fp_Slow(p, fp) ==
  LET vx == p.throw_velocity[1]
      vy == p.throw_velocity[2]
      max_x == (screen_width - p.width) * fp
      max_y == (screen_height - p.height) * fp
      bx == p.x + vx < 0 \/ p.x + vx > max_x
      by == p.y + vy < 0 \/ p.y + vy > max_y
  IN IF Abs(vx) < (2 * fp) \div 10 /\ Abs(vy) < (2 * fp) \div 10
     THEN [pet |-> [p EXCEPT !.throw_velocity = <<0, 0>>], ret |-> FALSE]
     ELSE [pet |-> [p EXCEPT !.x = Max(0, Min(p.x + vx, max_x)),
                             !.y = Max(0, Min(p.y + vy, max_y)),
                             !.throw_velocity =
                                <<IF bx THEN 0 - Scale(Scale(vx, 9, 10), 6, 10)
                                  ELSE Scale(vx, 9, 10),
                                  IF by THEN 0 - Scale(Scale(vy, 9, 10), 6, 10)
                                  ELSE Scale(vy, 9, 10)>>],
           ret |-> TRUE]

\* Pet._apply_throw with positions and velocities held in fp units per pixel;
\* ret is its return value.
_apply_throw_fp(p, fp) ==
  LET vx == p.throw_velocity[1]
      vy == p.throw_velocity[2]
      x1 == p.x + vx
      y1 == p.y + vy
      dvx == Scale(vx, 85, 100)
      dvy == Scale(vy, 85, 100)
      max_x == (screen_width - p.width) * fp
      max_y == (screen_height - p.height) * fp
      \* the two x tests run in sequence, then the two y tests
      x2 == IF x1 < 0 THEN 0 ELSE x1
      vx2 == IF x1 < 0 THEN bounce(dvx) ELSE dvx
      x3 == IF x2 > max_x THEN max_x ELSE x2
      vx3 == IF x2 > max_x THEN bounce(vx2) ELSE vx2
      y2 == IF y1 < 0 THEN 0 ELSE y1
      vy2 == IF y1 < 0 THEN bounce(dvy) ELSE dvy
      y3 == IF y2 > max_y THEN max_y ELSE y2
      vy3 == IF y2 > max_y THEN bounce(vy2) ELSE vy2
  IN IF Abs(vx) < (2 * fp) \div 10 /\ Abs(vy) < (2 * fp) \div 10
     THEN [pet |-> [p EXCEPT !.throw_velocity = <<0, 0>>], ret |-> FALSE]
     ELSE [pet |-> [p EXCEPT !.x = x3, !.y = y3, !.throw_velocity = <<vx3, vy3>>],
           ret |-> TRUE]

\* Pet._apply_throw on the agent of the scheduler's ticks.
_apply_throw(p) == _apply_throw_fp(p, FP)

\* in_bounds of Pet.update_state
in_bounds(p, in) ==
  /\ p.x <= in.x * FP /\ in.x * FP <= p.x + p.width * FP
  /\ p.y <= in.y * FP /\ in.y * FP <= p.y + p.height * FP

\* distance < self.height_lie, on the squares
lie_distance(p, in) ==
  LET dx == Abs(p.x - in.x * FP)
      dy == Abs(p.y - in.y * FP)
      r == p.height_lie * FP
  IN dx < r /\ dy < r /\ dx * dx + dy * dy < r * r

\* main_window.check_messages() is called by this tick
hook_fires(p, in) ==
  p.constructed /\ in.right /\ in_bounds(p, in) /\ ~p.right_click_consumed

\* lines 131-136
right_click(p, in) ==
  LET c1 == IF in.right /\ in_bounds(p, in) /\ ~p.right_click_consumed
            THEN TRUE ELSE p.right_click_consumed
  IN [p EXCEPT !.right_click_consumed = IF ~in.right THEN FALSE ELSE c1]

\* lines 138-142
drag_begin(p, in) ==
  IF in.left /\ in_bounds(p, in) /\ ~p.dragging
  THEN [p EXCEPT !.dragging = TRUE,
                 !.drag_offset = <<in.x * FP - p.x, in.y * FP - p.y>>,
                 !.drag_last_pos = <<in.x, in.y>>,
                 !.throw_velocity = <<0, 0>>]
  ELSE p

\* The drag move with the clamp of lines 153-154 left out.
drag_move_NoClamp(p, in) ==
  [p EXCEPT !.throw_velocity =
                IF p.drag_last_pos # << >>
                THEN <<(in.x - p.drag_last_pos[1]) * FP,
                       (in.y - p.drag_last_pos[2]) * FP>>
                ELSE @,
            !.drag_last_pos = <<in.x, in.y>>,
            !.x = in.x * FP - p.drag_offset[1],
            !.y = in.y * FP - p.drag_offset[2]]

\* lines 145-155
drag_move(p, in) ==
  LET new_x == in.x * FP - p.drag_offset[1]
      new_y == in.y * FP - p.drag_offset[2]
  IN [p EXCEPT !.throw_velocity =
                   IF p.drag_last_pos # << >>
                   THEN <<(in.x - p.drag_last_pos[1]) * FP,
                          (in.y - p.drag_last_pos[2]) * FP>>
                   ELSE @,
               !.drag_last_pos = <<in.x, in.y>>,
               !.x = Max(0, Min(new_x, (screen_width - p.width) * FP)),
               !.y = Max(0, Min(new_y, (screen_height - p.height) * FP))]

\* The release with the multiplier of line 158 left out.
drag_release_NoScale(p) ==
  [p EXCEPT !.dragging = FALSE,
            !.drag_last_pos = << >>]

\* lines 156-159
drag_release(p) ==
  [p EXCEPT !.dragging = FALSE,
            !.throw_velocity = <<Scale(@[1], 15, 10), Scale(@[2], 15, 10)>>,
            !.drag_last_pos = << >>]

\* lines 190-199
lateral_clamp(p) ==
  LET min_x == (screen_width - screen_width \div 4) * FP
      max_x == (screen_width - p.width) * FP
      flip(q) == IF q.state.name # "walldig"
                 THEN [q EXCEPT !.state.direction = 0 - @] ELSE q
      p1 == IF p.x < min_x THEN flip([p EXCEPT !.x = min_x]) ELSE p
  IN IF p1.x > max_x THEN flip([p1 EXCEPT !.x = max_x]) ELSE p1

\* The override with line 178 (immunity = True) left out.
lie_override_NoImmunity(p) ==
  LET data == PETS_DATA[p.species]
      has == "lie" \in DOMAIN data.defaults
  IN IF ~data.has_defaults THEN [pet |-> p, raised |-> TRUE]
     ELSE [pet |-> frame_animation(
                     [p EXCEPT !.state = State("lie", "lie", lie_duration,
                                  IF has THEN data.defaults["lie"].movement_speed ELSE 0,
                                  IF has THEN data.defaults["lie"].speed_animation ELSE 10,
                                  1)]),
           raised |-> FALSE]

\* lines 170-179: the reactive override.  A species without a "defaults"
\* table raises at line 174, before the state is replaced.
lie_override(p) ==
  LET data == PETS_DATA[p.species]
      has == "lie" \in DOMAIN data.defaults
  IN IF ~data.has_defaults THEN [pet |-> p, raised |-> TRUE]
     ELSE [pet |-> frame_animation(
                     [p EXCEPT !.state = State("lie", "lie", lie_duration,
                                  IF has THEN data.defaults["lie"].movement_speed ELSE 0,
                                  IF has THEN data.defaults["lie"].speed_animation ELSE 10,
                                  1),
                               !.immunity = TRUE]),
           raised |-> FALSE]

\* The completion with line 187 (immunity = False) left out.
cycle_complete_NoReset(p, rnd) ==
  LET q == IF p.species = "squirrel" THEN go_climb(p, rnd)
           ELSE [p EXCEPT !.state = random_state(STATES_INFO(p.species),
                                      StandingExclusion, rnd.name, rnd.direction)]
  IN frame_animation(q)

\* lines 181-188: the cycle completion
cycle_complete(p, rnd) ==
  LET q == IF p.species = "squirrel" THEN go_climb(p, rnd)
           ELSE [p EXCEPT !.state = random_state(STATES_INFO(p.species),
                                      StandingExclusion, rnd.name, rnd.direction)]
  IN frame_animation([q EXCEPT !.immunity = FALSE])

\* The state logic with the chain test of lines 166-168 left out.
state_logic_NoChain(p, in, rnd) ==
  IF "lie" \in DOMAIN PETS_DATA[p.species].states
     /\ lie_distance(p, in) /\ ~p.immunity
  THEN LET r == lie_override(p)
       IN IF r.raised THEN r ELSE [pet |-> lateral_clamp(r.pet), raised |-> FALSE]
  ELSE LET n == next(p)
       IN [pet |-> IF n.ret THEN lateral_clamp(cycle_complete(n.pet, rnd))
                   ELSE lateral_clamp(n.pet),
           raised |-> FALSE]

\* lines 164-199; raised: an exception reached the handler of line 200
state_logic(p, in, rnd) ==
  IF p.wall_scene_step # None
  THEN [pet |-> squirrel_climb(p, rnd), raised |-> FALSE]
  ELSE IF "lie" \in DOMAIN PETS_DATA[p.species].states
          /\ lie_distance(p, in) /\ ~p.immunity
  THEN LET r == lie_override(p)
       IN IF r.raised THEN r ELSE [pet |-> lateral_clamp(r.pet), raised |-> FALSE]
  ELSE LET n == next(p)
       IN [pet |-> IF n.ret THEN lateral_clamp(cycle_complete(n.pet, rnd))
                   ELSE lateral_clamp(n.pet),
           raised |-> FALSE]

\* update_state with the early return of line 162 left out: a tick that
\* applied throw physics goes on into the state logic.
update_state_NoSkip(p, in, rnd) ==
  IF ~p.constructed THEN [pet |-> p, raised |-> TRUE]
  ELSE
  LET p1 == drag_begin(right_click(p, in), in)
      p2 == IF p1.dragging /\ ~in.left THEN drag_release(p1) ELSE p1
      t == _apply_throw(p2)
  IN IF p1.dragging /\ in.left THEN [pet |-> drag_move(p1, in), raised |-> FALSE]
     ELSE state_logic(t.pet, in, rnd)

\* Pet.update_state: in is the sample polled at lines 120-125, rnd the random
\* draws a selection in this tick would make.  An object left unconstructed
\* has no x: line 127 raises.
update_state(p, in, rnd) ==
  IF ~p.constructed THEN [pet |-> p, raised |-> TRUE]
  ELSE
  LET p1 == drag_begin(right_click(p, in), in)
      p2 == IF p1.dragging /\ ~in.left THEN drag_release(p1) ELSE p1
      t == _apply_throw(p2)
  IN IF p1.dragging /\ in.left THEN [pet |-> drag_move(p1, in), raised |-> FALSE]
     ELSE IF t.ret THEN [pet |-> t.pet, raised |-> FALSE]
     ELSE state_logic(t.pet, in, rnd)

\* close with the window left standing (lines 84-86 left out).
close_KeepWindow(p) ==
  [p EXCEPT !.hbitmaps = "empty", !.current_frame = 0]

\* close(pet) of window.py
close(p) ==
  [p EXCEPT !.hbitmaps = "empty", !.hwnd = FALSE, !.current_frame = 0]

\* The worker's frame advance between two ticks:
\* frameCursor = (frameCursor + 1) mod frameCount.
advance_frame(p) ==
  [p EXCEPT !.current_frame = (@ + 1) % p.frame_count]

\* The last draw_pet_frame call: whether it went on into draw_frame, the
\* status is_full_screen() gave it, whether it refreshed, and whether the
\* window it handed to UpdateLayeredWindow still existed.
NoFrame == [drawn |-> FALSE, full_screen_now |-> FALSE, refreshed |-> FALSE, hwnd |-> FALSE]

\* MainWindow.start_refresh on window w with agents ps, load_pets() returning
\* loaded: the worker is stopped, every agent closed, the new agents get
\* their main_window and a new worker is started on them.
start_refresh(w, ps, loaded) ==
  [ win |-> [w EXCEPT !.worker = w.refreshes + 1,
                      !.running = (w.running \ {w.worker}) \cup {w.refreshes + 1},
                      !.old = [i \in DOMAIN ps |-> close(ps[i])],
                      !.refreshes = w.refreshes + 1,
                      !.ticks = 0],
    pets |-> loaded ]

\* draw_frame that refreshes on a change without recording the new status.
draw_frame_NoLatch(w, ps, self, full_screen_now, loaded) ==
  LET change == full_screen_now # w.STATE_FULLSCREEN
      r == IF change THEN start_refresh(w, ps, loaded) ELSE [win |-> w, pets |-> ps]
      self1 == IF change THEN close(self) ELSE self
  IN [ win |-> [r.win EXCEPT !.frame = [drawn |-> TRUE, full_screen_now |-> full_screen_now,
                                        refreshed |-> change, hwnd |-> self1.hwnd]],
       pets |-> r.pets ]

\* draw_frame(self, hbitmap), self being one of ps (each has its main_window
\* since start_refresh loaded it).  After a refresh self is the same object,
\* now closed; frame.hwnd is what line 62 hands to UpdateLayeredWindow.
draw_frame(w, ps, self, full_screen_now, loaded) ==
  LET change == full_screen_now # w.STATE_FULLSCREEN
      w1 == [w EXCEPT !.STATE_FULLSCREEN = full_screen_now]
      r == IF change THEN start_refresh(w1, ps, loaded) ELSE [win |-> w, pets |-> ps]
      self1 == IF change THEN close(self) ELSE self
  IN [ win |-> [r.win EXCEPT !.frame = [drawn |-> TRUE, full_screen_now |-> full_screen_now,
                                        refreshed |-> change, hwnd |-> self1.hwnd]],
       pets |-> r.pets ]

\* draw_pet_frame(pet, frame_image): nothing is drawn for an agent without a
\* window.
draw_pet_frame(w, ps, p, full_screen_now, loaded) ==
  IF p.hwnd THEN draw_frame(w, ps, p, full_screen_now, loaded)
  ELSE [win |-> [w EXCEPT !.frame = NoFrame], pets |-> ps]

\* -------------------------------------------------------------- messaging
\* The users who share the directory; inbox_path gives each one file.
Users == {"a", "b"}

\* A text is kept by its shape: the white space it begins with, the
\* characters from its first non-blank one to its last, and the white space
\* it ends with.  A blank text has none in the middle.
Txt(lead, core, trail) == [lead |-> lead, core |-> core, trail |-> trail]
TextLen(t) == t.lead + t.core + t.trail
strip(t) == Txt(0, t.core, 0)

\* A line of an inbox file.  json is false for a line json.loads rejects (or
\* a blank one); delivered is "True", "False" or "None" (the key is absent).
Row(msg_id, sender, receiver, created_at, text) ==
  [ json |-> TRUE, msg_id |-> msg_id, sender |-> sender, receiver |-> receiver,
    created_at |-> created_at, text |-> text,
    delivered |-> "False", delivered_at |-> None ]

BadLine ==
  [ json |-> FALSE, msg_id |-> 0, sender |-> "", receiver |-> "",
    created_at |-> 0, text |-> Txt(0, 0, 0),
    delivered |-> "None", delivered_at |-> None ]

inbox_path(user_id) == user_id

atomic_append_jsonl(files, path, obj) == [files EXCEPT ![path] = Append(@, obj)]

read_jsonl(files, path) == SelectSeq(files[path], LAMBDA line : line.json)

overwrite_jsonl(files, path, rows) == [files EXCEPT ![path] = rows]

\* send_message that appends whatever text it is given.
send_message_NoStrip(files, sender, receiver, text, msg_id, t) ==
  atomic_append_jsonl(files, inbox_path(receiver),
                      Row(msg_id, sender, receiver, t, text))

\* send_message: msg_id is the uuid drawn, t the time.
send_message(files, sender, receiver, text, msg_id, t) ==
  LET text1 == strip(text)
  IN IF TextLen(text1) = 0
     THEN files
     ELSE atomic_append_jsonl(files, inbox_path(receiver),
                              Row(msg_id, sender, receiver, t, text1))

\* fetch_undelivered up to its loop's end (lines 79-94): the rows read and
\* marked in memory, the ones collected, whether any was marked.
fetch_read(files, user_id, t) ==
  LET rows == read_jsonl(files, inbox_path(user_id))
      mark(r) == IF r.delivered = "True" THEN r
                 ELSE [r EXCEPT !.delivered = "True", !.delivered_at = t]
      marked == [i \in DOMAIN rows |-> mark(rows[i])]
      fresh == SelectSeq(rows, LAMBDA r : r.delivered # "True"
                                           /\ TextLen(strip(r.text)) # 0)
  IN [ rows |-> marked,
       out |-> [i \in DOMAIN fresh |-> mark(fresh[i])],
       changed |-> \E i \in DOMAIN rows : rows[i].delivered # "True" ]

\* fetch_undelivered from line 95 on: the file is replaced if a row was marked.
fetch_replace(files, user_id, f) ==
  IF f.changed THEN overwrite_jsonl(files, inbox_path(user_id), f.rows) ELSE files

\* fetch_undelivered that never writes the file back.
fetch_undelivered_NoWrite(files, user_id, t) ==
  [files |-> files, out |-> fetch_read(files, user_id, t).out]

\* fetch_undelivered run without interruption.
fetch_undelivered(files, user_id, t) ==
  LET f == fetch_read(files, user_id, t)
  IN [files |-> fetch_replace(files, user_id, f), out |-> f.out]

\* The length of the first i chunks joined by "\n\n---\n\n".
RECURSIVE joined(_, _)
joined(chunks, i) ==
  IF i = 0 THEN 0
  ELSE joined(chunks, i - 1) + (IF i > 1 THEN 7 ELSE 0) + chunks[i]

NoBubble == [polled |-> {}, shown |-> {}, len |-> 0]

\* MainWindow.check_messages for user me: what it polled, the messages whose
\* chunk is whole in the text it showed, and the length of that text.
check_messages(files, me, t) ==
  LET got == fetch_undelivered(files, me, t)
      msgs == got.out
      head == SelectSeq(SubSeq(msgs, 1, Min(5, Len(msgs))),
                        LAMBDA m : TextLen(strip(m.text)) # 0)
      chunks == [i \in DOMAIN head |->
                   5 + Len(head[i].sender) + 2 + TextLen(strip(head[i].text))]
      total == joined(chunks, Len(chunks))
  IN [ files |-> got.files,
       bubble |-> [ polled |-> {msgs[i].msg_id : i \in DOMAIN msgs},
                    shown |-> {head[i].msg_id : i \in
                                 {j \in DOMAIN head : joined(chunks, j) <= 800}},
                    len |-> IF total > 800 THEN 800 + 5 ELSE total ] ]

\* ------------------------------------------------------ CatCompanionApp
\* compapet/main.py.  Positions and velocities are not kept: whether the pet
\* moves is a flag, and what a movement tick finds (landed, target reached,
\* screen edge met) is drawn when it runs.  No food is ever put out, so
\* target_food_item stays None and active_food_items empty; the cooldown
\* timer is never started anywhere in the file and stays inactive.
ANIMATION_FRAMES == {"Dead", "Fall", "Hurt", "Idle", "Jump", "Run", "Slide", "Walk"}
DEAD_ANIMATION_THRESHOLD == 5

NoApp ==
  [ sprites |-> {}, current_animation |-> "Idle",
    is_playing_one_shot_animation |-> FALSE, is_dead |-> FALSE,
    is_sliding |-> FALSE, is_edge_running |-> FALSE,
    _is_jumping |-> FALSE, _is_manual_moving |-> FALSE,
    dragging |-> FALSE, moving |-> FALSE, _click_count |-> 0,
    animation_timer |-> FALSE, movement_timer |-> FALSE,
    random_behavior_timer |-> FALSE,
    one_shots |-> 0,          \* pending singleShot(_one_shot_animation_finished)
    dead_frames |-> 0,        \* pending singleShot(_reached_last_dead_frame)
    revive_enabled |-> FALSE, control_box |-> FALSE, visible |-> FALSE ]

\* CatCompanionApp.__init__ with every animation of the pet type loaded.
AppInit ==
  [ NoApp EXCEPT !.sprites = ANIMATION_FRAMES, !.animation_timer = TRUE,
                 !.movement_timer = TRUE, !.random_behavior_timer = TRUE,
                 !.visible = TRUE ]

_set_animation(a, new_animation_name) ==
  IF a.is_playing_one_shot_animation /\ new_animation_name # a.current_animation
  THEN a
  ELSE IF new_animation_name \notin a.sprites
  THEN IF "Idle" \notin a.sprites
       THEN [a EXCEPT !.animation_timer = FALSE, !.movement_timer = FALSE,
                      !.random_behavior_timer = FALSE]
       ELSE [a EXCEPT !.current_animation = "Idle"]
  ELSE [a EXCEPT !.current_animation = new_animation_name]

_play_one_shot_animation(a, animation_name) ==
  IF a.is_dead THEN a
  ELSE IF animation_name \notin a.sprites
  THEN [a EXCEPT !.is_playing_one_shot_animation = FALSE,
                 !.random_behavior_timer = IF ~a._is_manual_moving THEN TRUE ELSE @]
  ELSE LET b == [a EXCEPT !.is_playing_one_shot_animation = TRUE,
                          !.random_behavior_timer = FALSE,
                          !._is_manual_moving = FALSE,
                          !.moving = FALSE,
                          !.current_animation = animation_name]
       IN IF animation_name = "Jump"
          THEN [b EXCEPT !._is_jumping = TRUE]
          ELSE [b EXCEPT !.one_shots = @ + 1]

_play_dead_animation(a) ==
  IF "Dead" \notin a.sprites THEN _play_one_shot_animation(a, "Hurt")
  ELSE [a EXCEPT !.is_playing_one_shot_animation = TRUE,
                 !.random_behavior_timer = FALSE,
                 !.movement_timer = FALSE,
                 !.is_dead = TRUE,
                 !._is_manual_moving = FALSE,
                 !.is_edge_running = FALSE,
                 !.is_sliding = FALSE,
                 !._is_jumping = FALSE,
                 !.moving = FALSE,
                 !.current_animation = "Dead",
                 !.dead_frames = @ + 1]

_reached_last_dead_frame(a) ==
  [a EXCEPT !.animation_timer = FALSE, !.movement_timer = FALSE,
            !.revive_enabled = TRUE]

_one_shot_animation_finished(a) ==
  IF a.current_animation = "Dead"
  THEN [a EXCEPT !.is_playing_one_shot_animation = FALSE, !.is_dead = TRUE,
                 !.revive_enabled = TRUE]
  ELSE LET b == _set_animation([a EXCEPT !.is_playing_one_shot_animation = FALSE], "Idle")
       IN [b EXCEPT !.random_behavior_timer =
                      IF ~b._is_manual_moving /\ ~b.is_dead THEN TRUE ELSE @]

_reset_pet(a) ==
  _set_animation(
    [a EXCEPT !.is_dead = FALSE, !.is_playing_one_shot_animation = FALSE,
              !._is_manual_moving = FALSE, !.is_edge_running = FALSE,
              !.is_sliding = FALSE, !._is_jumping = FALSE, !.moving = FALSE,
              !._click_count = 0, !.revive_enabled = FALSE,
              !.animation_timer = TRUE, !.movement_timer = TRUE,
              !.random_behavior_timer = TRUE],
    "Idle")

\* near: the target drawn is less than a pixel away.
_start_edge_run(a, near) ==
  IF near
  THEN _set_animation([a EXCEPT !.moving = FALSE, !.is_edge_running = FALSE], "Idle")
  ELSE _set_animation([a EXCEPT !.moving = TRUE, !.is_edge_running = TRUE], "Run")

_start_slide_behavior(a, near) ==
  IF near
  THEN _set_animation([a EXCEPT !.moving = FALSE, !.is_sliding = FALSE], "Idle")
  ELSE _set_animation([a EXCEPT !.moving = TRUE, !.is_sliding = TRUE], "Slide")

\* choice: the band random.random() falls in (below 0.15, 0.30, 0.40, 0.80,
\* or above).
_random_movement(a, choice, near) ==
  IF a.is_playing_one_shot_animation \/ a.is_sliding \/ a._is_manual_moving \/ a.is_dead
  THEN a
  ELSE IF "Run" \in a.sprites /\ choice = "edge" THEN _start_edge_run(a, near)
  ELSE IF "Slide" \in a.sprites /\ choice \in {"edge", "slide"}
  THEN _start_slide_behavior(a, near)
  ELSE IF "Jump" \in a.sprites /\ choice \in {"edge", "slide", "jump"}
  THEN _play_one_shot_animation(a, "Jump")
  ELSE IF choice \in {"edge", "slide", "jump", "walk"}
  THEN _set_animation([a EXCEPT !.moving = TRUE], "Walk")
  ELSE _set_animation([a EXCEPT !.moving = FALSE], "Idle")

\* e: what the tick finds, [landed, reached, hit].
_update_cat_position(a, e) ==
  IF a.is_dead THEN [a EXCEPT !.moving = FALSE]
  ELSE IF a._is_jumping
  THEN IF e.landed
       THEN LET b == _set_animation([a EXCEPT !._is_jumping = FALSE,
                                              !.is_playing_one_shot_animation = FALSE],
                                    "Idle")
            IN [b EXCEPT !.random_behavior_timer = IF ~b._is_manual_moving THEN TRUE ELSE @]
       ELSE a
  ELSE IF a.dragging \/ a.is_playing_one_shot_animation THEN a
  ELSE
  LET a1 == IF ~a._is_manual_moving /\ ~a.is_sliding
            THEN [a EXCEPT !.random_behavior_timer = TRUE] ELSE a
  IN IF a1.is_sliding
     THEN IF e.reached
          THEN LET b == _set_animation([a1 EXCEPT !.is_sliding = FALSE, !.moving = FALSE], "Idle")
               IN [b EXCEPT !.random_behavior_timer = IF ~b._is_manual_moving THEN TRUE ELSE @]
          ELSE _set_animation(a1, "Slide")
     ELSE IF a1.is_edge_running
     THEN IF e.reached \/ e.hit
          THEN LET b == _set_animation([a1 EXCEPT !.is_edge_running = FALSE, !.moving = FALSE], "Idle")
               IN [b EXCEPT !.random_behavior_timer = IF ~b._is_manual_moving THEN TRUE ELSE @]
          ELSE _set_animation(a1, "Run")
     ELSE IF a1.moving THEN _set_animation(a1, "Walk")
     ELSE IF a1._is_manual_moving \/ ~e.hit THEN _set_animation(a1, "Idle")
     ELSE a1

mousePressEvent(a) ==
  LET b == _set_animation([a EXCEPT !.dragging = TRUE, !.random_behavior_timer = FALSE,
                                    !._is_manual_moving = FALSE, !.moving = FALSE], "Idle")
  IN [b EXCEPT !.is_edge_running = FALSE, !.is_sliding = FALSE,
               !._is_jumping = FALSE, !.is_dead = FALSE]

\* click: the pointer moved less than CLICK_THRESHOLD since the press.
mouseReleaseEvent(a, click) ==
  LET a1 == [a EXCEPT !.dragging = FALSE]
      a2 == IF click /\ ~a1.is_dead
            THEN IF a1._click_count + 1 >= DEAD_ANIMATION_THRESHOLD
                 THEN [_play_dead_animation([a1 EXCEPT !._click_count = @ + 1])
                         EXCEPT !._click_count = 0]
                 ELSE _play_one_shot_animation([a1 EXCEPT !._click_count = @ + 1], "Hurt")
            ELSE IF a1.is_dead THEN [a1 EXCEPT !._click_count = 0]
            ELSE a1
  IN IF ~a2.is_dead /\ ~a2._is_manual_moving
     THEN [a2 EXCEPT !.random_behavior_timer = TRUE] ELSE a2

_open_control_box(a) ==
  LET b == [a EXCEPT !.control_box = TRUE,
                     !.random_behavior_timer = IF ~a.is_dead THEN FALSE ELSE @,
                     !.is_edge_running = FALSE, !.is_sliding = FALSE,
                     !._is_jumping = FALSE, !._is_manual_moving = TRUE,
                     !.moving = FALSE]
  IN _set_animation(b, "Idle")

_on_control_box_closed(a) ==
  LET b == [a EXCEPT !.control_box = FALSE, !._is_manual_moving = FALSE,
                     !.random_behavior_timer =
                        IF ~a.is_playing_one_shot_animation /\ ~a.is_dead THEN TRUE ELSE @,
                     !.moving = FALSE]
  IN _set_animation(b, "Idle")

_start_manual_movement(a) ==
  IF a._is_jumping \/ a.is_sliding \/ a.is_dead THEN a
  ELSE _set_animation([a EXCEPT !._is_manual_moving = TRUE,
                                !.random_behavior_timer = FALSE,
                                !.is_edge_running = FALSE, !.moving = TRUE], "Walk")

stop_manual_movement(a) ==
  IF ~a._is_jumping /\ ~a.is_sliding /\ ~a.is_dead
  THEN _set_animation([a EXCEPT !.moving = FALSE], "Idle") ELSE a

_manual_jump(a) ==
  IF ~a._is_jumping /\ ~a.is_playing_one_shot_animation /\ ~a.is_dead
  THEN _play_one_shot_animation(stop_manual_movement(a), "Jump") ELSE a

_manual_slide(a, near) ==
  IF ~a.is_sliding /\ ~a.is_playing_one_shot_animation /\ ~a.is_dead
  THEN _start_slide_behavior(stop_manual_movement(a), near) ELSE a

toggle_visibility(a) ==
  IF a.visible THEN [a EXCEPT !.visible = FALSE]
  ELSE [a EXCEPT !.visible = TRUE,
                 !.random_behavior_timer =
                    IF ~a._is_manual_moving /\ ~a.is_dead THEN TRUE ELSE @]

\* -------------------------------------------------------- DeskPetWidget
\* old/pet_demo.py.  A movie is named by its state; NoMovie is Python's None.
\* states are the keys of mapping.states, valid those whose file QMovie can
\* read; forced says that now_ts() is still below _forced_until.
NoMovie == ""
StateNames == {"idle", "walk", "walk_fast", "swipe"}

NoWidget ==
  [ states |-> {}, valid |-> {}, _current_state |-> "idle", _movies |-> {},
    sprite |-> NoMovie, running |-> {}, _dragging |-> FALSE, forced |-> FALSE ]

\* The movie returned and the widget with its cache.
_get_movie(w, state) ==
  IF state \notin w.states THEN [w |-> w, mv |-> NoMovie]
  ELSE IF state \in w._movies THEN [w |-> w, mv |-> state]
  ELSE IF state \notin w.valid THEN [w |-> w, mv |-> NoMovie]
  ELSE [w |-> [w EXCEPT !._movies = @ \cup {state}], mv |-> state]

_set_state(w, state, force) ==
  LET g == _get_movie(w, state)
  IN IF g.mv = NoMovie THEN g.w
     ELSE IF g.w._current_state = state THEN g.w
     ELSE [g.w EXCEPT !.running = (@ \ (g.w._movies \cap {g.w._current_state})) \cup {g.mv},
                      !._current_state = state,
                      !.sprite = g.mv,
                      !.forced = IF force THEN TRUE ELSE @]

\* DeskPetWidget.__init__ on a mapping.
WidgetInit(states, valid) ==
  _set_state([NoWidget EXCEPT !.states = states, !.valid = valid], "idle", FALSE)

\* speed: the band abs(vx) + abs(vy) falls in (below 0.3, up to 2.2, above).
_tick(w, speed) ==
  IF w._dragging \/ w.forced THEN w
  ELSE IF speed = "slow" THEN _set_state(w, "idle", FALSE)
  ELSE IF "walk_fast" \in w.states /\ speed = "fast" THEN _set_state(w, "walk_fast", FALSE)
  ELSE IF "walk" \in w.states THEN _set_state(w, "walk", FALSE)
  ELSE _set_state(w, "idle", FALSE)

mouseDoubleClickEvent(w) ==
  IF "swipe" \in w.states THEN _set_state(w, "swipe", TRUE) ELSE w

\* ------------------------------------------------------------------ system
VARIABLES
  pet,     \* the agent (the attributes of one Pet object)
  inp,     \* the last sample polled from the input source
  op,      \* the operation that produced this state
  raised,  \* the last tick ended in the exception handler of update_state
  drags,   \* the drags begun so far
  rs,      \* a call of Pet.random_state: its catalog, exclusions and result
  run,     \* a throw followed step by step: its start and the steps applied
  pets,    \* the agents of the worker's list, where several are followed
  worker,  \* the worker's pass over pets: whose turn it is, and the hook
           \* calls of the current press of the secondary button
  win,     \* the main window across refreshes: its worker, the workers that
           \* run, the agents of the generation before
  mail,    \* the shared directory: the inbox files, the calls of
           \* fetch_undelivered under way, what they returned, the bubble
  app,     \* the CatCompanionApp of compapet: its flags and timers
  widget   \* the DeskPetWidget of pet_demo: its state, movies and sprite

vars == <<pet, inp, op, raised, drags, rs, run, pets, worker, win, mail, app, widget>>

MaxDrags == 1

Sample(pt, left, right) == [x |-> pt[1], y |-> pt[2], left |-> left, right |-> right]

AllInputs == {Sample(pt, l, r) : pt \in Pointers, l \in BOOLEAN, r \in BOOLEAN}
LeftInputs == {Sample(pt, l, FALSE) : pt \in Pointers, l \in BOOLEAN}
HoverInputs == {Sample(pt, FALSE, FALSE) : pt \in Pointers}
DragInputs == {Sample(pt, l, FALSE) : pt \in DragPointers, l \in BOOLEAN}
ThrowInputs == {Sample(pt, l, FALSE) : pt \in {PtGrab, PtOff}, l \in BOOLEAN}

\* The species and sizes agents are created with; the catalog holds no fox.
Configs == { <<"cat", "very small">>, <<"cat", "original">>,
             <<"squirrel", "very small">>, <<"dog", "very small">>,
             <<"fox", "very small">> }

\* The draws a selection makes: a candidate name, a direction, and for a
\* climber whether the chain is entered.
Draws(p) ==
  [ name : random_state_keys(STATES_INFO(p.species), StandingExclusion),
    direction : {0 - 1, 1},
    climb : IF p.species = "squirrel" THEN BOOLEAN ELSE {FALSE} ]

NoDraw == [name |-> "", direction |-> 1, climb |-> FALSE]

\* The tick reaches a cycle completion (state.next returns true at line 181
\* or inside the chain), the only place that draws.
selects(p, in) ==
  /\ p.constructed
  /\ LET p1 == drag_begin(right_click(p, in), in)
         p2 == IF p1.dragging /\ ~in.left THEN drag_release(p1) ELSE p1
         t == _apply_throw(p2)
     IN /\ ~(p1.dragging /\ in.left)
        /\ ~t.ret
        /\ next(t.pet).ret
        /\ \/ t.pet.wall_scene_step # None
           \/ ~( "lie" \in DOMAIN PETS_DATA[p.species].states
                 /\ lie_distance(t.pet, in) /\ ~t.pet.immunity )

\* A drag begins in this tick.
begins_drag(p, in) == p.constructed /\ in.left /\ in_bounds(p, in) /\ ~p.dragging

NoCall == [info |-> << >>, exception |-> {}, out |-> NoState, done |-> FALSE]
NoRun == [v |-> <<0, 0>>, x |-> 0, steps |-> 0]
NoWorker == [turn |-> 0, calls |-> 0]
NoWin ==
  [ worker |-> 0, running |-> {}, old |-> << >>, refreshes |-> 0, ticks |-> 0,
    STATE_FULLSCREEN |-> FALSE, frame |-> NoFrame ]

\* The threads that call check_messages: the one that runs the window's
\* slots (timer, tray action) and the worker's (the hook of a tick).
Threads == {"gui", "worker"}
NoFetch == [pc |-> "idle", rows |-> << >>, out |-> << >>, changed |-> FALSE]
NoSend == [sender |-> "", receiver |-> "", text |-> Txt(0, 0, 0)]
NoMail ==
  [ files |-> [u \in Users |-> << >>],
    sent |-> 0,                              \* the messages appended so far
    fetching |-> [th \in Threads |-> NoFetch],
    returns |-> << >>,                       \* per msg_id, the times returned
    last |-> << >>,                          \* what the last fetch returned
    user |-> "",                             \* and for whom
    call |-> NoSend,                         \* the last send_message call
    bubble |-> NoBubble ]

\* The names the first random_state of an agent draws from.
InitialNames(species) ==
  IF species \in DOMAIN PETS_DATA
  THEN random_state_keys(STATES_INFO(species), StandingExclusion) ELSE {""}

\* An agent as load_pets creates it, before the worker's first tick.
InitOf(configs) ==
  /\ \E cfg \in configs, direction \in {0 - 1, 1} :
       \E name \in InitialNames(cfg[1]) :
         pet = PetInit(cfg[1], cfg[2], name, direction)
  /\ inp = Sample(PtOff, FALSE, FALSE)
  /\ op = "init"
  /\ raised = FALSE
  /\ drags = 0
  /\ rs = NoCall
  /\ run = NoRun
  /\ pets = << >>
  /\ worker = NoWorker
  /\ win = NoWin
  /\ mail = NoMail
  /\ app = NoApp
  /\ widget = NoWidget

Init == InitOf(Configs)

\* One scheduler tick of the agent: Pet.update_state on a fresh sample.
\* The user begins at most MaxDrags drags.
Tick(inputs) ==
  /\ op # "close"
  /\ \E in \in inputs :
       /\ in.left => (pet.dragging \/ drags < MaxDrags)
       /\ \E rnd \in (IF selects(pet, in) THEN Draws(pet) ELSE {NoDraw}) :
            /\ pet' = update_state(pet, in, rnd).pet
            /\ raised' = update_state(pet, in, rnd).raised
       /\ inp' = in
       /\ drags' = IF begins_drag(pet, in) THEN drags + 1 ELSE drags
  /\ op' = "tick"
  /\ UNCHANGED <<rs, run, pets, worker, win, mail, app, widget>>

\* The worker shows the next frame of the running animation.
AdvanceFrame ==
  /\ op # "close"
  /\ pet.constructed
  /\ pet.frame_interval # None
  /\ pet' = advance_frame(pet)
  /\ op' = "frame"
  /\ UNCHANGED <<inp, raised, drags, rs, run, pets, worker, win, mail, app, widget>>

\* MainWindow.start_refresh closes the agent ...
Close ==
  /\ op # "close"
  /\ pet' = close(pet)
  /\ op' = "close"
  /\ UNCHANGED <<inp, raised, drags, rs, run, pets, worker, win, mail, app, widget>>

\* ... and loads a new one in its place.
Reload ==
  /\ op = "close"
  /\ \E direction \in {0 - 1, 1} :
       \E name \in InitialNames(pet.species) :
         pet' = PetInit(pet.species, pet.size, name, direction)
  /\ inp' = Sample(PtOff, FALSE, FALSE)
  /\ op' = "init"
  /\ raised' = FALSE
  /\ drags' = 0
  /\ UNCHANGED <<rs, run, pets, worker, win, mail, app, widget>>

TickLeft == Tick(LeftInputs)
TickHover == Tick(HoverInputs)
TickDrag == Tick(DragInputs)
TickThrow == Tick(ThrowInputs)

\* Drag, throw and state logic of one agent.
Next == TickLeft \/ Close \/ Reload
Spec == Init /\ [][Next]_vars

\* Drags to and beyond every screen edge, of one cat.
InitDrag == InitOf({<<"cat", "very small">>})
NextDrag == TickDrag \/ Close \/ Reload
SpecDrag == InitDrag /\ [][NextDrag]_vars

\* A drag and the throw that follows it, with the worker ticking for ever
\* (PetWorker's loop calls update_state on every pass).
\* A tick that changes the sample is possible in every state, so the worker's
\* weak fairness is that ticks keep happening.
SpecThrow == InitDrag /\ [][TickThrow]_vars /\ []<><<TickThrow>>_vars

\* The state logic with the worker's frame advance between ticks.
NextAnim == TickHover \/ AdvanceFrame \/ Close \/ Reload
SpecAnim == Init /\ [][NextAnim]_vars

\* Pet._apply_throw called again and again on an agent that starts with a
\* given throw velocity at a given place on the ground, in Fine units.
MaxSteps == 30
StartVelocities == {<<10, 0>>, <<0 - 10, 0>>, <<0, 0 - 10>>, <<3, 0>>}
StartXs == {0, 64, 100}

InitDecay ==
  /\ \E v \in StartVelocities, x \in StartXs :
       LET p == PetInit("cat", "very small", "idle", 1)
       IN /\ pet = [p EXCEPT !.throw_velocity = <<v[1] * Fine, v[2] * Fine>>,
                             !.x = x * Fine,
                             !.y = (p.y \div FP) * Fine,
                             !.y_def = (p.y_def \div FP) * Fine]
          /\ run = [v |-> v, x |-> x, steps |-> 0]
  /\ inp = Sample(PtOff, FALSE, FALSE)
  /\ op = "init"
  /\ raised = FALSE
  /\ drags = 0
  /\ rs = NoCall
  /\ pets = << >>
  /\ worker = NoWorker
  /\ win = NoWin
  /\ mail = NoMail
  /\ app = NoApp
  /\ widget = NoWidget

ApplyThrow ==
  /\ run.steps < MaxSteps
  /\ pet' = _apply_throw_fp(pet, Fine).pet
  /\ run' = [run EXCEPT !.steps = @ + 1]
  /\ op' = "throw"
  /\ UNCHANGED <<inp, raised, drags, rs, pets, worker, win, mail, app, widget>>

SpecDecay == InitDecay /\ [][ApplyThrow]_vars

\* Two agents of one species and size, as load_pets creates them (both at
\* the right end of the ground, one on top of the other), updated in turn by
\* the worker.  Each call of update_state polls the pointer and the buttons
\* itself (lines 120-125); the secondary button is followed, the primary
\* button stays up.
HookInputs == {Sample(pt, FALSE, r) : pt \in Pointers, r \in BOOLEAN}

InitPets ==
  /\ \E d1 \in {0 - 1, 1}, d2 \in {0 - 1, 1} :
       \E n1 \in random_state_keys(STATES_INFO("cat"), StandingExclusion),
          n2 \in random_state_keys(STATES_INFO("cat"), StandingExclusion) :
         pets = << PetInit("cat", "very small", n1, d1),
                   PetInit("cat", "very small", n2, d2) >>
  /\ worker = [turn |-> 1, calls |-> 0]
  /\ win = NoWin
  /\ mail = NoMail
  /\ app = NoApp
  /\ widget = NoWidget
  /\ pet = PetInit("cat", "very small", "idle", 1)
  /\ inp = Sample(PtOff, FALSE, FALSE)
  /\ op = "init"
  /\ raised = FALSE
  /\ drags = 0
  /\ rs = NoCall
  /\ run = NoRun

\* The worker calls update_state of the agent whose turn it is.  calls counts
\* the check_messages calls (line 134) since a poll last found the secondary
\* button up.
UpdatePet ==
  LET i == worker.turn
      p == pets[i]
  IN /\ \E in \in HookInputs :
          /\ \E rnd \in (IF selects(p, in) THEN Draws(p) ELSE {NoDraw}) :
               /\ pets' = [pets EXCEPT ![i] = update_state(p, in, rnd).pet]
               /\ raised' = update_state(p, in, rnd).raised
          /\ inp' = in
          /\ worker' = [ turn |-> IF i = Len(pets) THEN 1 ELSE i + 1,
                         calls |-> IF ~in.right THEN 0
                                   ELSE IF hook_fires(p, in) THEN worker.calls + 1
                                   ELSE worker.calls ]
     /\ op' = "tick"
     /\ UNCHANGED <<pet, drags, rs, run, win, mail, app, widget>>

SpecPets == InitPets /\ [][UpdatePet]_vars

\* MainWindow.start_refresh called again and again, each worker ticking its
\* agents a few times in between.  Workers are numbered from 1; worker 0 is
\* None.
MaxRefresh == 2
MaxTicks == 2

InitRefresh ==
  /\ pets = << >>
  /\ win = NoWin
  /\ mail = NoMail
  /\ app = NoApp
  /\ widget = NoWidget
  /\ worker = NoWorker
  /\ pet = PetInit("cat", "very small", "idle", 1)
  /\ inp = Sample(PtOff, FALSE, FALSE)
  /\ op = "init"
  /\ raised = FALSE
  /\ drags = 0
  /\ rs = NoCall
  /\ run = NoRun

\* What load_pets() returns: a cat and a dog, or nothing.
Loaded ==
  { << PetInit("cat", "very small", n1, d), PetInit("dog", "very small", n2, d) >> :
      n1 \in InitialNames("cat"), n2 \in InitialNames("dog"), d \in {0 - 1, 1} }
  \cup { << >> }

\* MainWindow.start_refresh: stops the worker, closes every agent, loads the
\* new agents and starts a new worker on them.
StartRefresh ==
  /\ win.refreshes < MaxRefresh
  /\ \E loaded \in Loaded :
       /\ pets' = start_refresh(win, pets, loaded).pets
       /\ win' = start_refresh(win, pets, loaded).win
  /\ op' = "refresh"
  /\ UNCHANGED <<pet, inp, raised, drags, rs, run, worker, mail, app, widget>>

\* A running worker calls update_state of one of its agents.
WorkerTick ==
  /\ win.running # {} /\ win.ticks < MaxTicks
  /\ \E i \in DOMAIN pets, in \in HoverInputs :
       /\ \E rnd \in (IF selects(pets[i], in) THEN Draws(pets[i]) ELSE {NoDraw}) :
            /\ pets' = [pets EXCEPT ![i] = update_state(pets[i], in, rnd).pet]
            /\ raised' = update_state(pets[i], in, rnd).raised
       /\ inp' = in
  /\ win' = [win EXCEPT !.ticks = @ + 1]
  /\ op' = "tick"
  /\ UNCHANGED <<pet, drags, rs, run, worker, mail, app, widget>>

NextRefresh == StartRefresh \/ WorkerTick
SpecRefresh == InitRefresh /\ [][NextRefresh]_vars

\* The worker's frame_ready signals reaching draw_pet_frame while the
\* fullscreen status changes: a frame of a current agent, or one of an agent
\* of the generation before that was still under way when it was closed.
DrawPetFrame ==
  /\ \E p \in {pets[i] : i \in DOMAIN pets} \cup {win.old[i] : i \in DOMAIN win.old},
        full_screen_now \in BOOLEAN, loaded \in Loaded :
       /\ (p.hwnd /\ full_screen_now # win.STATE_FULLSCREEN) => win.refreshes < MaxRefresh
       /\ pets' = draw_pet_frame(win, pets, p, full_screen_now, loaded).pets
       /\ win' = draw_pet_frame(win, pets, p, full_screen_now, loaded).win
  /\ op' = "draw"
  /\ UNCHANGED <<pet, inp, raised, drags, rs, run, worker, mail, app, widget>>

NextDraw == StartRefresh \/ DrawPetFrame
SpecDraw == InitRefresh /\ [][NextDraw]_vars

\* Calls of Pet.random_state on any catalog with any exclusion list.
CatalogNames == {"idle", "walk", "lie", "with_ball", "wallclimb"}
ExceptionNames == CatalogNames \cup {"ghost"}

InfoOf(names) ==
  [ n \in names |-> [gif |-> n, hold |-> fps, movement_speed |-> 0,
                     speed_animation |-> 10] ]

InitRandom ==
  /\ pet = PetInit("cat", "very small", "idle", 1)
  /\ inp = Sample(PtOff, FALSE, FALSE)
  /\ op = "init"
  /\ raised = FALSE
  /\ drags = 0
  /\ run = NoRun
  /\ pets = << >>
  /\ worker = NoWorker
  /\ win = NoWin
  /\ mail = NoMail
  /\ app = NoApp
  /\ widget = NoWidget
  /\ \E names \in SUBSET CatalogNames \ {{}} :
       rs = [info |-> InfoOf(names), exception |-> {}, out |-> NoState,
             done |-> FALSE]

RandomState ==
  /\ \E exception \in SUBSET ExceptionNames :
       LET keys == random_state_keys(rs.info, exception)
       IN \E name \in (IF keys = {} THEN {""} ELSE keys), direction \in {0 - 1, 1} :
            rs' = [rs EXCEPT !.exception = exception,
                             !.out = random_state(rs.info, exception, name, direction),
                             !.done = TRUE]
  /\ UNCHANGED <<pet, inp, op, raised, drags, run, pets, worker, win, mail, app, widget>>

SpecRandom == InitRandom /\ [][RandomState]_vars

\* Nothing of DeskPets_repo is running.
NoDeskPets ==
  /\ pet = PetInit("cat", "very small", "idle", 1)
  /\ inp = Sample(PtOff, FALSE, FALSE)
  /\ raised = FALSE
  /\ drags = 0
  /\ rs = NoCall
  /\ run = NoRun
  /\ pets = << >>
  /\ worker = NoWorker
  /\ win = NoWin

\* Everything but the shared directory, at rest.
NoAgents ==
  /\ NoDeskPets
  /\ app = NoApp
  /\ widget = NoWidget

\* The messaging functions called one after the other on inbox files of any
\* contents.  A message's msg_id is its number in the order of creation, and
\* now_ts counts the messages created, so a time of 0 is before the run.
MaxSent == 2
MaxLines == 2
MaxReturns == 3

Texts == {Txt(0, 0, 0), Txt(2, 0, 0), Txt(1, 2, 1)}

now_ts(m) == Len(m.returns) + 1

\* The lines an inbox file may hold when the program starts: one that is
\* not JSON, a message delivered before, one with no delivered key, a blank
\* one not delivered.
Lines(i) ==
  { BadLine,
    [Row(i, "a", "b", 0, Txt(0, 3, 0)) EXCEPT !.delivered = "True", !.delivered_at = 0],
    [Row(i, "a", "b", 0, Txt(1, 2, 1)) EXCEPT !.delivered = "None"],
    Row(i, "a", "b", 0, Txt(2, 0, 0)) }

RECURSIVE Files(_)
Files(n) ==
  IF n = 0 THEN { << >> }
  ELSE Files(n - 1)
       \cup { Append(f, l) : f \in {g \in Files(n - 1) : Len(g) = n - 1}, l \in Lines(n) }

\* The number of rows of out that carry msg_id i.
times(out, i) == Cardinality({j \in DOMAIN out : out[j].msg_id = i})

InitMail ==
  /\ NoAgents
  /\ op = "init"
  /\ \E f \in Files(MaxLines) :
       mail = [NoMail EXCEPT !.files = [u \in Users |-> IF u = "b" THEN f ELSE << >>],
                             !.returns = [i \in DOMAIN f |-> 0]]

SendMessage ==
  /\ mail.sent < MaxSent
  /\ \E sender \in Users, text \in Texts : \E receiver \in Users \ {sender} :
       LET files1 == send_message(mail.files, sender, receiver, text,
                                  Len(mail.returns) + 1, now_ts(mail))
       IN mail' = [mail EXCEPT
                     !.files = files1,
                     !.sent = IF files1 = mail.files THEN @ ELSE @ + 1,
                     !.returns = IF files1 = mail.files THEN @ ELSE Append(@, 0),
                     !.call = [sender |-> sender, receiver |-> receiver, text |-> text]]
  /\ op' = "send"
  /\ UNCHANGED <<pet, inp, raised, drags, rs, run, pets, worker, win, app, widget>>

FetchUndelivered ==
  /\ \A i \in DOMAIN mail.returns : mail.returns[i] < MaxReturns
  /\ \E user_id \in Users :
       LET got == fetch_undelivered(mail.files, user_id, now_ts(mail))
       IN mail' = [mail EXCEPT
                     !.files = got.files,
                     !.last = got.out,
                     !.user = user_id,
                     !.returns = [i \in DOMAIN @ |-> @[i] + times(got.out, i)]]
  /\ op' = "fetch"
  /\ UNCHANGED <<pet, inp, raised, drags, rs, run, pets, worker, win, app, widget>>

NextMail == SendMessage \/ FetchUndelivered
SpecMail == InitMail /\ [][NextMail]_vars

\* User b's window polling its inbox while a writes to it.
MaxInbox == 6
LongText == Txt(0, 900, 0)

InitCheck ==
  /\ NoAgents
  /\ op = "init"
  /\ mail = NoMail

CheckSend ==
  /\ mail.sent < MaxInbox
  /\ \E text \in {Txt(0, 3, 0), LongText} :
       mail' = [mail EXCEPT
                  !.files = send_message(@, "a", "b", text, mail.sent + 1, now_ts(mail)),
                  !.sent = @ + 1,
                  !.returns = Append(@, 0),
                  !.call = [sender |-> "a", receiver |-> "b", text |-> text]]
  /\ op' = "send"
  /\ UNCHANGED <<pet, inp, raised, drags, rs, run, pets, worker, win, app, widget>>

CheckMessages ==
  /\ LET c == check_messages(mail.files, "b", now_ts(mail))
     IN mail' = [mail EXCEPT !.files = c.files, !.bubble = c.bubble, !.user = "b"]
  /\ op' = "check"
  /\ UNCHANGED <<pet, inp, raised, drags, rs, run, pets, worker, win, app, widget>>

NextCheck == CheckSend \/ CheckMessages
SpecCheck == InitCheck /\ [][NextCheck]_vars

\* User a's process appending to b's inbox while the two threads of b's
\* process run fetch_undelivered on it, each call reading the file in one
\* step and replacing it in a later one.
RaceSend ==
  /\ mail.sent < MaxSent
  /\ mail' = [mail EXCEPT
                !.files = send_message(@, "a", "b", Txt(0, 3, 0), mail.sent + 1, now_ts(mail)),
                !.sent = @ + 1,
                !.returns = Append(@, 0),
                !.call = [sender |-> "a", receiver |-> "b", text |-> Txt(0, 3, 0)]]
  /\ op' = "send"
  /\ UNCHANGED <<pet, inp, raised, drags, rs, run, pets, worker, win, app, widget>>

FetchRead(th) ==
  /\ mail.fetching[th].pc = "idle"
  /\ \A i \in DOMAIN mail.returns : mail.returns[i] < MaxReturns
  /\ LET f == fetch_read(mail.files, "b", now_ts(mail))
     IN mail' = [mail EXCEPT !.fetching[th] =
                   [pc |-> "read", rows |-> f.rows, out |-> f.out, changed |-> f.changed]]
  /\ op' = "read"
  /\ UNCHANGED <<pet, inp, raised, drags, rs, run, pets, worker, win, app, widget>>

FetchReplace(th) ==
  /\ mail.fetching[th].pc = "read"
  /\ LET f == mail.fetching[th]
     IN mail' = [mail EXCEPT
                   !.files = fetch_replace(@, "b", f),
                   !.fetching[th] = NoFetch,
                   !.last = f.out,
                   !.user = "b",
                   !.returns = [i \in DOMAIN @ |-> @[i] + times(f.out, i)]]
  /\ op' = "replace"
  /\ UNCHANGED <<pet, inp, raised, drags, rs, run, pets, worker, win, app, widget>>

TimerFetch == FetchRead("gui") \/ FetchReplace("gui")
HookFetch == FetchRead("worker") \/ FetchReplace("worker")

NextRace == RaceSend \/ TimerFetch \/ HookFetch
SpecRace == InitCheck /\ [][NextRace]_vars

\* An agent wider than a quarter of the screen (the cat at size "small") and
\* one of a species without defaults, dragged to the left half of the screen.
PtLeft == <<60, 50>>
BandInputs == {Sample(pt, l, FALSE) : pt \in {PtInside, PtLeft}, l \in BOOLEAN}

InitBand == InitOf({ <<"cat", "small">>, <<"dog", "very small">> })
TickBand == Tick(BandInputs)
SpecBand == InitBand /\ [][TickBand]_vars

\* The events of CatCompanionApp, each handler run to its end: timers that
\* are active fire, the user presses, releases, opens the control box and
\* uses its keys, toggles the pet from the tray, and triggers Revive when the
\* action is enabled.
MaxPending == 2

InitApp ==
  /\ NoDeskPets
  /\ mail = NoMail
  /\ op = "init"
  /\ app = AppInit
  /\ widget = NoWidget

AppStep(a, name) ==
  /\ app' = a
  /\ op' = name
  /\ UNCHANGED <<pet, inp, raised, drags, rs, run, pets, worker, win, mail, widget>>

MovementTick ==
  /\ app.movement_timer
  /\ \E e \in [landed : BOOLEAN, reached : BOOLEAN, hit : BOOLEAN] :
       AppStep(_update_cat_position(app, e), "move")

RandomMovement ==
  /\ app.random_behavior_timer
  /\ \E choice \in {"edge", "slide", "jump", "walk", "idle"}, near \in BOOLEAN :
       AppStep(_random_movement(app, choice, near), "random")

OneShotFinished ==
  /\ app.one_shots > 0
  /\ AppStep(_one_shot_animation_finished([app EXCEPT !.one_shots = @ - 1]), "finished")

ReachedLastDeadFrame ==
  /\ app.dead_frames > 0
  /\ AppStep(_reached_last_dead_frame([app EXCEPT !.dead_frames = @ - 1]), "lastframe")

MousePress ==
  /\ app.visible /\ ~app.dragging
  /\ AppStep(mousePressEvent(app), "press")

MouseRelease ==
  /\ app.dragging
  /\ app.one_shots < MaxPending /\ app.dead_frames < MaxPending
  /\ \E click \in BOOLEAN : AppStep(mouseReleaseEvent(app, click), "release")

Revive ==
  /\ app.revive_enabled
  /\ AppStep(_reset_pet(app), "revive")

OpenControlBox == AppStep(_open_control_box(app), "open")

ControlBoxKey ==
  /\ app.control_box
  /\ \/ AppStep(_start_manual_movement(app), "key")
     \/ AppStep(stop_manual_movement(app), "key")
     \/ AppStep(_manual_jump(app), "key")
     \/ \E near \in BOOLEAN : AppStep(_manual_slide(app, near), "key")
     \/ AppStep(_on_control_box_closed(app), "closed")

ToggleVisibility == AppStep(toggle_visibility(app), "toggle")

NextApp ==
  \/ MovementTick \/ RandomMovement \/ OneShotFinished \/ ReachedLastDeadFrame
  \/ MousePress \/ MouseRelease \/ Revive
  \/ OpenControlBox \/ ControlBoxKey \/ ToggleVisibility
SpecApp == InitApp /\ [][NextApp]_vars

\* DeskPetWidget built on any mapping with a valid idle asset, then its walk
\* timer, the user's presses, releases and double clicks, and the passing of
\* the forced time.
InitWidget ==
  /\ NoDeskPets
  /\ mail = NoMail
  /\ op = "init"
  /\ app = NoApp
  /\ \E states \in SUBSET StateNames : \E valid \in SUBSET states :
       /\ "idle" \in valid
       /\ widget = WidgetInit(states, valid)

WidgetStep(w, name) ==
  /\ widget' = w
  /\ op' = name
  /\ UNCHANGED <<pet, inp, raised, drags, rs, run, pets, worker, win, mail, app>>

WidgetTick == \E speed \in {"slow", "mid", "fast"} : WidgetStep(_tick(widget, speed), "tick")

WidgetDoubleClick == WidgetStep(mouseDoubleClickEvent(widget), "doubleclick")

WidgetPress ==
  /\ ~widget._dragging
  /\ WidgetStep([widget EXCEPT !._dragging = TRUE], "press")

WidgetRelease ==
  /\ widget._dragging
  /\ WidgetStep([widget EXCEPT !._dragging = FALSE], "release")

ForcedOver ==
  /\ widget.forced
  /\ WidgetStep([widget EXCEPT !.forced = FALSE], "later")

NextWidget ==
  WidgetTick \/ WidgetDoubleClick \/ WidgetPress \/ WidgetRelease \/ ForcedOver
SpecWidget == InitWidget /\ [][NextWidget]_vars

\* ------------------------------------------------------------------ claims
Clamp(v, lo, hi) == IF v < lo THEN lo ELSE IF v > hi THEN hi ELSE v

\* Throw physics would act on this agent: not both axes below 0.2.
ThrowActive(p) ==
  ~(Abs(p.throw_velocity[1]) * 10 < 2 * FP /\ Abs(p.throw_velocity[2]) * 10 < 2 * FP)

\* C1 (as stated): after every tick the agent's box lies within the screen,
\* 0 <= x <= screen_width - width and 0 <= y <= screen_height - height for the
\* current frame set.
C1_PositionInBounds ==
  (op = "tick" /\ pet.constructed) =>
    /\ 0 <= pet.x /\ pet.x <= (screen_width - pet.width) * FP
    /\ 0 <= pet.y /\ pet.y <= (screen_height - pet.height) * FP

\* The start of a tick at which the reactive override is due by C2's words:
\* no drag, no active throw, no immunity, pointer below the lie threshold.
C2_Due ==
  /\ op' = "tick" /\ pet.constructed
  /\ ~pet.dragging /\ ~ThrowActive(pet) /\ ~pet.immunity
  /\ lie_distance(pet, inp')

C3_Inv ==
  (pet.constructed /\ pet.immunity) =>
    /\ pet.state.name = "lie" /\ pet.state.hold = lie_duration
    /\ pet.state.counter < pet.state.hold
    /\ pet.wall_scene_step = None

C3_Act ==
  (op' = "tick" /\ pet.constructed /\ pet.immunity) =>
    /\ pet'.immunity =>
         /\ pet'.state.name = pet.state.name /\ pet'.state.hold = pet.state.hold
         /\ pet'.state.counter >= pet.state.counter
         /\ ~selects(pet, inp')
    /\ ~pet'.immunity =>
         /\ selects(pet, inp')
         /\ pet.state.counter + 1 = pet.state.hold

\* C3: immunity is true only in the lie state the override entered (hold
\* lie_duration) and before its cycle completes; while it is true the
\* override does not fire again (the lie state is kept and its counter never
\* goes back), and it turns false exactly on the tick the cycle completes.
C3_Immunity == [](C3_Inv) /\ [][C3_Act]_vars

\* The lie state of the override, dragged and thrown while immune, half-way
\* through its cycle.
C3_Witness ==
  /\ op = "tick" /\ pet.constructed /\ pet.immunity
  /\ pet.state.counter > 1 /\ drags = 1 /\ ~pet.dragging
  /\ inp = Sample(PtInside, FALSE, FALSE)

C5_Six == {"with_ball", "wallclimb", "walldig", "wallgrab", "wallnap", "fall_from_grab"}

\* C5: an agent of a species other than the climber, whose catalog has a
\* state outside the six, is never in one of the six: not at creation, not
\* after a cycle completion, not in any other reachable state.
C5_NeverExcluded ==
  (pet.constructed /\ pet.species # "squirrel"
   /\ DOMAIN STATES_INFO(pet.species) \ C5_Six # {})
    => pet.state.name \notin C5_Six

\* A cat, whose catalog holds with_ball, right after a cycle completion
\* selected walk.
C5_Witness ==
  /\ op = "tick" /\ pet.constructed /\ pet.species = "cat"
  /\ "with_ball" \in DOMAIN STATES_INFO(pet.species)
  /\ drags = 0 /\ ~inp.left
  /\ pet.state.name = "walk" /\ pet.state.counter = 0

\* C6 (as stated): a tick whose cycle completes at line 181 resets immunity
\* and leaves the frame cursor and the new state's counter at 0.
C6_Original ==
  [][ (op' = "tick" /\ selects(pet, inp') /\ pet.wall_scene_step = None)
      => (~pet'.immunity /\ pet'.current_frame = 0 /\ pet'.state.counter = 0) ]_vars

\* C7 (as stated): the frame cursor lies within the loaded frames and
\* frame_count is their number, for every constructed agent.
C7_Original ==
  pet.constructed =>
    /\ 0 <= pet.current_frame /\ pet.current_frame < pet.frames.n
    /\ pet.frame_count = pet.frames.n

C8_Inv ==
  (pet.constructed /\ pet.wall_scene_step # None) =>
    /\ pet.species = "squirrel"
    /\ pet.wall_scene_step \in 0 .. Len(ClimbChain) - 1
    /\ pet.state.name = ClimbChain[pet.wall_scene_step + 1]

C8_Act ==
  (op' = "tick" /\ pet.constructed) =>
    /\ (pet.wall_scene_step = None /\ pet'.wall_scene_step # None)
         => pet'.wall_scene_step = 0
    /\ (pet.wall_scene_step # None /\ pet'.wall_scene_step # pet.wall_scene_step)
         => /\ selects(pet, inp')
            /\ IF pet.wall_scene_step < Len(ClimbChain) - 1
               THEN pet'.wall_scene_step = pet.wall_scene_step + 1
               ELSE /\ pet'.wall_scene_step = None
                    /\ pet'.state.name \in
                         random_state_keys(STATES_INFO(pet.species), StandingExclusion)
    /\ (pet.wall_scene_step # None /\ pet'.wall_scene_step = pet.wall_scene_step)
         => (pet'.state.name = pet.state.name /\ ~selects(pet, inp'))

\* C8: while wall_scene_step is set the climber's state is the chain step it
\* names; the chain is entered at wallclimb, every cycle completion moves it
\* to the next of wallclimb, walldig, wallgrab, wallnap, fall_from_grab,
\* nothing else changes the state, and after fall_from_grab the step is
\* null again and the state is a random selection.
C8_ClimbChain == [](C8_Inv) /\ [][C8_Act]_vars

\* The last step of the chain, reached through the four before it.
C8_Witness ==
  /\ op = "tick" /\ pet.constructed
  /\ pet.wall_scene_step = Len(ClimbChain) - 1
  /\ pet.state.name = "fall_from_grab"

\* C9 (as stated): a drag begins only on a tick in which the primary button
\* goes from up to down with the pointer inside the agent's box.
C9_Original ==
  [][ (op' = "tick" /\ pet.constructed /\ ~pet.dragging /\ pet'.dragging)
      => (~inp.left /\ inp'.left /\ in_bounds(pet, inp')) ]_vars

\* C10: on a tick that starts with a drag active and finds the primary
\* button down, the tick does not raise, the position becomes the pointer
\* minus the offset clamped to the screen, and the throw velocity becomes
\* the pointer delta since the previous tick.
C10_DragTracks ==
  [][ (op' = "tick" /\ pet.constructed /\ pet.dragging /\ inp'.left)
      => ( /\ ~raised' /\ pet'.dragging
           /\ pet'.x = Clamp(inp'.x * FP - pet.drag_offset[1], 0,
                             (screen_width - pet.width) * FP)
           /\ pet'.y = Clamp(inp'.y * FP - pet.drag_offset[2], 0,
                             (screen_height - pet.height) * FP)
           /\ pet'.throw_velocity = <<(inp'.x - inp.x) * FP, (inp'.y - inp.y) * FP>> ) ]_vars

\* A drag followed the pointer from beyond the bottom-right corner to beyond
\* the top-left corner: the agent stopped at the origin of the screen and
\* recorded the pointer delta.
C10_Witness ==
  /\ op = "tick" /\ pet.constructed /\ pet.dragging
  /\ inp = Sample(PtNeg, TRUE, FALSE)
  /\ pet.x = 0 /\ pet.y = 0
  /\ inp.x * FP - pet.drag_offset[1] < 0
  /\ pet.throw_velocity = <<(PtNeg[1] - PtOff[1]) * FP, (PtNeg[2] - PtOff[2]) * FP>>

\* 1.5 times a recorded pointer delta (a whole number of pixels)
C11_Initial(v) == <<(3 * v[1]) \div 2, (3 * v[2]) \div 2>>

\* C11: on the tick that finds the primary button released during a drag,
\* dragging becomes false, the drag anchor is cleared, and the throw starts
\* with 1.5 times the pointer delta recorded on the last dragging tick: the
\* throw step of that tick moves the agent by that much (stopped at the
\* screen edges) and leaves 0.85 of it as velocity on an axis that met no
\* edge; a zero delta starts no throw.
C11_Release ==
  [][ (op' = "tick" /\ pet.constructed /\ pet.dragging /\ ~inp'.left)
      => LET v0 == C11_Initial(pet.throw_velocity)
             x1 == pet.x + v0[1]
             y1 == pet.y + v0[2]
             max_x == (screen_width - pet.width) * FP
             max_y == (screen_height - pet.height) * FP
         IN /\ ~pet'.dragging /\ pet'.drag_last_pos = << >>
            /\ IF v0 = <<0, 0>>
               THEN pet'.throw_velocity = <<0, 0>>
               ELSE /\ pet'.x = Clamp(x1, 0, max_x)
                    /\ pet'.y = Clamp(y1, 0, max_y)
                    /\ (0 <= x1 /\ x1 <= max_x)
                         => pet'.throw_velocity[1] = Scale(v0[1], 85, 100)
                    /\ (0 <= y1 /\ y1 <= max_y)
                         => pet'.throw_velocity[2] = Scale(v0[2], 85, 100) ]_vars

\* A drag that last moved by (-6, -11) was released: the agent flew by
\* (-9, -16.5) from its resting place, clear of every edge.
C11_Witness ==
  /\ op = "tick" /\ pet.constructed /\ ~pet.dragging /\ ~inp.left
  /\ pet.drag_last_pos = << >>
  /\ pet.x = (screen_width - pet.width) * FP - 900
  /\ pet.y = (screen_height - pet.height - taskbar_height) * FP - 1650
  /\ pet.throw_velocity = <<0 - 765, 0 - 1402>>

\* The tick about to run drags the agent with the button held.
C12_DragTick ==
  /\ op' = "tick" /\ pet.constructed
  /\ inp'.left /\ (pet.dragging \/ in_bounds(pet, inp'))

\* The velocity the throw step of the tick about to run starts from.
C12_Velocity ==
  IF pet.dragging THEN C11_Initial(pet.throw_velocity) ELSE pet.throw_velocity

\* The tick about to run applies throw physics.
C12_ThrowTick ==
  /\ op' = "tick" /\ pet.constructed /\ ~C12_DragTick
  /\ ~(Abs(C12_Velocity[1]) * 10 < 2 * FP /\ Abs(C12_Velocity[2]) * 10 < 2 * FP)

\* C12: a tick that drags the agent with the button held, or that applies
\* throw physics, leaves the state (name, counter, direction), immunity and
\* wall_scene_step as they were; the proximity override does not replace the
\* state and the lateral clamp does not touch x, which after a throw step is
\* the thrown position stopped at the screen edges only.
C12_SkipsStateLogic ==
  [][ (C12_DragTick \/ C12_ThrowTick)
      => ( /\ pet'.state = pet.state
           /\ pet'.immunity = pet.immunity
           /\ pet'.wall_scene_step = pet.wall_scene_step
           /\ ~raised'
           /\ C12_ThrowTick =>
                pet'.x = Clamp(pet.x + C12_Velocity[1], 0,
                               (screen_width - pet.width) * FP) ) ]_vars

\* A cat released next to the pointer, not immune, was thrown by (-45, -40.5)
\* to the left of the lateral partition: the tick neither entered the lie
\* state nor clamped x.
C12_Witness ==
  /\ op = "tick" /\ pet.constructed /\ ~pet.dragging
  /\ inp = Sample(PtInside, FALSE, FALSE)
  /\ pet.species = "cat" /\ pet.size = "very small"
  /\ ~pet.immunity /\ pet.state.name # "lie"
  /\ pet.x = (screen_width - pet.width) * FP - 4500
  /\ pet.x < (screen_width - screen_width \div 4) * FP
  /\ pet.y = (screen_height - pet.height - taskbar_height) * FP - 4050

C13_Act ==
  (op' = "tick" /\ pet.constructed /\ ~pet.dragging /\ ~pet'.dragging) =>
    /\ Abs(pet'.throw_velocity[1]) <= Abs(pet.throw_velocity[1])
    /\ Abs(pet'.throw_velocity[2]) <= Abs(pet.throw_velocity[2])
    /\ ~ThrowActive(pet) => pet'.throw_velocity = <<0, 0>>
    /\ (ThrowActive(pet) /\ pet.throw_velocity # <<0, 0>>)
         => pet'.throw_velocity # <<0, 0>>

\* C13: on a tick without a drag neither axis of the throw velocity grows in
\* magnitude, bounces included; the velocity is set to (0, 0) by the tick
\* that starts with both axes below 0.2 and by no earlier tick; and once
\* drags have ended the velocity is eventually (0, 0) for good.
C13_ThrowDecays ==
  /\ [][C13_Act]_vars
  /\ (<>[](~pet.dragging) => <>[](pet.throw_velocity = <<0, 0>>))

\* A throw with a fractional velocity has run its course: the agent is at
\* rest, off the pixel grid, with velocity (0, 0).
C13_Witness ==
  /\ op = "tick" /\ pet.constructed /\ ~pet.dragging /\ drags = 1
  /\ pet.throw_velocity = <<0, 0>>
  /\ pet.y % FP # 0

\* The run C14 is about: velocity (10, 0) with room for the whole flight
\* (less than 66 pixels) before the right edge.
C14_Run ==
  /\ pet.constructed /\ run.v = <<10, 0>>
  /\ run.x + 66 <= screen_width - pet.width

\* C14 (as stated): from velocity (10, 0), with no drag and no boundary
\* contact, the velocity is below 0.2 after at most 25 ticks and is exactly
\* (0, 0) after that tick.
C14_Original ==
  (C14_Run /\ run.steps = 25) => pet.throw_velocity = <<0, 0>>

\* C14 (amended): from velocity (10, 0), with no drag and no boundary
\* contact, the x velocity stays at 0.2 or above through the first 24 throw
\* steps, is below 0.2 but not zero after the 25th, and is exactly (0, 0)
\* after the 26th call and from then on; the y velocity is 0 throughout and
\* the agent never reaches the right edge.
C14_Decay ==
  C14_Run =>
    /\ pet.throw_velocity[2] = 0
    /\ pet.x < (screen_width - pet.width) * Fine
    /\ run.steps <= 24 => pet.throw_velocity[1] * 10 >= 2 * Fine
    /\ run.steps = 25 => ( /\ 0 < pet.throw_velocity[1]
                            /\ pet.throw_velocity[1] * 10 < 2 * Fine )
    /\ run.steps >= 26 => pet.throw_velocity = <<0, 0>>

\* The 26th call has just zeroed what was left of velocity (10, 0).
C14_Witness ==
  /\ C14_Run /\ run.steps = 26 /\ run.x = 64
  /\ pet.throw_velocity = <<0, 0>>
  /\ pet.x > (run.x + 65) * Fine

C15_Act ==
  C12_ThrowTick =>
    LET v == C12_Velocity
        x1 == pet.x + v[1]
        y1 == pet.y + v[2]
        max_x == (screen_width - pet.width) * FP
        max_y == (screen_height - pet.height) * FP
        damped(a) == Scale(a, 85, 100)
        bounced(a) == 0 - Scale(damped(a), 6, 10)
    IN /\ x1 < 0 => (pet'.x = 0 /\ pet'.throw_velocity[1] = bounced(v[1]))
       /\ x1 > max_x => (pet'.x = max_x /\ pet'.throw_velocity[1] = bounced(v[1]))
       /\ (0 <= x1 /\ x1 <= max_x)
            => (pet'.x = x1 /\ pet'.throw_velocity[1] = damped(v[1]))
       /\ y1 < 0 => (pet'.y = 0 /\ pet'.throw_velocity[2] = bounced(v[2]))
       /\ y1 > max_y => (pet'.y = max_y /\ pet'.throw_velocity[2] = bounced(v[2]))
       /\ (0 <= y1 /\ y1 <= max_y)
            => (pet'.y = y1 /\ pet'.throw_velocity[2] = damped(v[2]))

\* C15: a throw step that takes x below 0 or above screen_width - width
\* leaves x exactly on that edge and the x velocity at -0.6 times its damped
\* value, while y and the y velocity are what they are without the bounce
\* (moved and damped only); the same for y with the axes exchanged.
C15_Bounce == [][C15_Act]_vars

\* A throw has just bounced off the left edge alone: x is 0 with the x
\* velocity turned to the right, y is clear of both edges and still moving.
C15_Witness ==
  /\ op = "tick" /\ pet.constructed /\ ~pet.dragging /\ drags = 1
  /\ pet.x = 0 /\ pet.throw_velocity[1] > 0
  /\ 0 < pet.y /\ pet.y < (screen_height - pet.height) * FP
  /\ pet.throw_velocity[2] # 0

\* The tick about to run reaches the state logic: no drag, no throw step.
C16_StateLogicTick ==
  /\ op' = "tick" /\ pet.constructed /\ ~C12_DragTick /\ ~C12_ThrowTick

\* C16 (as stated): every tick that reaches the state logic ends with x
\* brought back into the lateral partition, screen_width - screen_width//4
\* <= x <= screen_width - width.
C16_Original ==
  [][ C16_StateLogicTick
      => ( /\ pet'.x >= (screen_width - screen_width \div 4) * FP
           /\ pet'.x <= (screen_width - pet'.width) * FP ) ]_vars

\* C17 (as stated): between two polls that find the secondary button up,
\* check_messages is called at most once, however long the button is held,
\* wherever the pointer moves and however many agents' boxes hold it.
C17_Original == worker.calls <= 1

\* C18 (as stated): check_messages is called only by a tick that finds the
\* secondary button released, never by one that finds it down.
C18_Original ==
  [][ (op' = "tick" /\ worker'.calls > worker.calls) => ~inp'.right ]_vars

\* C19 (as stated): the second agent of a pass acts on the sample the first
\* agent of that pass acted on.
C19_Original ==
  [][ (op' = "tick" /\ worker.turn = 2) => inp' = inp ]_vars

\* C20 (as stated): a failure inside a tick is over with that tick: the
\* agent's next tick is processed normally, it does not end in the exception
\* handler again.
C20_Original ==
  [][ (op = "tick" /\ raised /\ op' = "tick") => ~raised' ]_vars

\* C21 (as stated): after every tick the loaded frames, the frame count, the
\* height and the frame cursor are those of the current state, also when
\* the new state's frames failed to load.
C21_Original ==
  (op = "tick" /\ pet.constructed) =>
    LET f == load_gif_frames(pet.species, pet.state.gif)
    IN /\ pet.frames.gif = pet.state.gif
       /\ pet.frames.n = f.n
       /\ pet.frame_count = f.n
       /\ pet.height = SizeHeight(pet.size, f.h)
       /\ pet.current_frame = 0

\* C22 (as stated): an agent of a species the catalog does not hold is never
\* ticked by the worker: its creation has failed and no object came of it.
C22_Original ==
  [][ op' = "tick" => pet.species \in DOMAIN PETS_DATA ]_vars

\* C23 (as stated): for a species without a defaults table no tick raises,
\* and every state the agent is given has movement_speed 0, speed_animation
\* 1.0 and the fallback hold (the base fps, or lie_duration in the state of
\* the lie override).
C23_Original ==
  (op = "tick" /\ pet.constructed /\ ~PETS_DATA[pet.species].has_defaults) =>
    /\ ~raised
    /\ pet.state.movement_speed = 0
    /\ pet.state.speed_animation = 10
    /\ pet.state.hold = (IF pet.immunity THEN lie_duration ELSE fps)

\* C24 (as stated): whenever the current state's frames are loaded, the
\* frame interval is that of the current state, 1 / (fps x speed_animation);
\* for a speed_animation of exactly 0 there is no frame interval and the
\* frame cursor stays on frame 0.
C24_Original ==
  (pet.constructed /\ op \in {"tick", "frame"}
   /\ pet.frames.gif = pet.state.gif /\ pet.frames.n > 0) =>
    IF pet.state.speed_animation # 0
    THEN pet.frame_interval = 10000 \div (fps * pet.state.speed_animation)
    ELSE pet.frame_interval = None /\ pet.current_frame = 0

\* C25: when start_refresh has returned, every agent of the generation before
\* has its bitmap handles emptied and its window gone, and the worker of the
\* generation before no longer runs; at every moment at most one worker
\* runs, and it is the window's current one.
C25_Refreshed ==
  /\ Cardinality(win.running) <= 1
  /\ win.running \subseteq {win.worker}
  /\ op = "refresh" =>
       /\ win.running = {win.worker}
       /\ \A i \in DOMAIN win.old :
            win.old[i].hbitmaps = "empty" /\ ~win.old[i].hwnd

\* The second refresh has closed a generation of two agents that had windows
\* and had been ticked, and has started the second worker.
C25_Witness ==
  /\ op = "refresh" /\ win.refreshes = 2 /\ win.running = {2}
  /\ Len(win.old) = 2
  /\ win.old[1].constructed /\ win.old[1].state.counter > 0
  /\ ~win.old[1].hwnd /\ win.old[1].hbitmaps = "empty"

\* A row a fetch of this run marked, and one that carries a text.
Marked(r) == r.json /\ r.delivered = "True" /\ r.delivered_at >= 1
NonBlank(r) == r.text.core > 0

\* C26 (first call): fetch_undelivered leaves every row of the inbox
\* delivered with a delivery time, changes nothing else of a row, and returns
\* the rows that were not delivered and carry a non-blank text, in file order.
C26_Marks ==
  [][ op' = "fetch" =>
        LET before == SelectSeq(mail.files[mail'.user], LAMBDA l : l.json)
            after == mail'.files[mail'.user]
            fresh == SelectSeq(before, LAMBDA r : r.delivered # "True" /\ NonBlank(r))
        IN /\ \A u \in Users \ {mail'.user} : mail'.files[u] = mail.files[u]
           /\ Len(mail'.last) = Len(fresh)
           /\ \A i \in DOMAIN fresh :
                /\ mail'.last[i].msg_id = fresh[i].msg_id
                /\ mail'.last[i].text = fresh[i].text
                /\ mail'.last[i].delivered = "True"
           /\ IF \E i \in DOMAIN before : before[i].delivered # "True"
              THEN /\ Len(after) = Len(before)
                   /\ \A i \in DOMAIN before :
                        /\ after[i].delivered = "True"
                        /\ after[i].delivered_at # None
                        /\ [after[i] EXCEPT !.delivered = before[i].delivered,
                                            !.delivered_at = before[i].delivered_at]
                             = before[i]
                        /\ before[i].delivered = "True" => after[i] = before[i]
              ELSE after = mail.files[mail'.user] ]_vars

\* C26 (second call): a fetch that follows a fetch for the same user returns
\* nothing and leaves the files as they were.
C26_Again ==
  [][ (op = "fetch" /\ op' = "fetch" /\ mail'.user = mail.user) =>
        mail'.last = << >> /\ mail'.files = mail.files ]_vars

\* C26 (exactly once): a message with a text has been returned once if a
\* fetch of this run marked it and never otherwise; a blank one never.
C26_Once ==
  \A u \in Users : \A i \in DOMAIN mail.files[u] :
    LET r == mail.files[u][i]
    IN r.json => mail.returns[r.msg_id] = (IF Marked(r) /\ NonBlank(r) THEN 1 ELSE 0)

C30_Send ==
  [][ op' = "send" =>
        LET c == mail'.call
            before == mail.files[c.receiver]
            after == mail'.files[c.receiver]
        IN IF c.text.core = 0
           THEN mail'.files = mail.files
           ELSE /\ Len(after) = Len(before) + 1
                /\ SubSeq(after, 1, Len(before)) = before
                /\ after[Len(after)].json
                /\ after[Len(after)].delivered = "False"
                /\ after[Len(after)].receiver = c.receiver
                /\ after[Len(after)].sender = c.sender
                /\ \A u \in Users \ {c.receiver} : mail'.files[u] = mail.files[u] ]_vars

\* A padded text was just appended to a's inbox behind a row that was there,
\* while b's inbox holds rows too.
C30_Witness ==
  /\ op = "send" /\ mail.call.receiver = "a" /\ mail.call.text = Txt(1, 2, 1)
  /\ Len(mail.files["a"]) = 2
  /\ mail.files["a"][2].delivered = "False" /\ mail.files["a"][2].text = Txt(0, 2, 0)
  /\ Len(mail.files["b"]) = 2

\* A send of white space alone has just left every inbox as it was.
C30_BlankWitness ==
  /\ op = "send" /\ mail.call.text = Txt(2, 0, 0) /\ mail.sent = 1
  /\ Len(mail.files["a"]) + Len(mail.files["b"]) = 1

\* C27: every message a call of check_messages polls is displayed in the
\* bubble that call shows.
C27_Original == op = "check" => mail.bubble.polled \subseteq mail.bubble.shown

\* C28: no sent message is lost; whatever the interleaving of send_message
\* with fetch_undelivered, every message appended is in the receiver's inbox
\* file afterwards.
C28_Original ==
  \A id \in 1..mail.sent :
    \E i \in DOMAIN mail.files["b"] : mail.files["b"][i].msg_id = id

\* C29: when check_messages runs concurrently for the same user, each message
\* is returned by fetch_undelivered at most once.
C29_Original == \A id \in DOMAIN mail.returns : mail.returns[id] <= 1

\* C31 (as stated): after every tick that is not a drag tick, not an
\* active-throw tick and not a climb-chain tick, x lies in the right-hand
\* quarter band, screen_width - screen_width//4 <= x <= screen_width - width.
C31_Original ==
  [][ (C16_StateLogicTick /\ pet.wall_scene_step = None)
      => ( /\ pet'.x >= (screen_width - screen_width \div 4) * FP
           /\ pet'.x <= (screen_width - pet'.width) * FP ) ]_vars

\* C32 (as stated): draw_frame never presents a frame to a destroyed window;
\* UpdateLayeredWindow is not called for an agent after close has destroyed
\* its window and set hwnd to None.
C32_Original == (op = "draw" /\ win.frame.drawn) => win.frame.hwnd

\* C33: after a draw_frame call STATE_FULLSCREEN is the status that call
\* observed; the call runs start_refresh once if the status differs from the
\* one recorded before and not at all if it is the same, whichever agent is
\* drawn.
C33_Once ==
  [][ (op' = "draw" /\ win'.frame.drawn) =>
        /\ win'.STATE_FULLSCREEN = win'.frame.full_screen_now
        /\ win'.refreshes = win.refreshes
             + (IF win'.frame.full_screen_now # win.STATE_FULLSCREEN THEN 1 ELSE 0) ]_vars

\* Fullscreen was entered once: the draw that saw it refreshed, and a later
\* draw of a newly loaded agent under the same status did not.
C33_Witness ==
  /\ op = "draw" /\ win.frame.drawn /\ win.frame.full_screen_now /\ ~win.frame.refreshed
  /\ win.STATE_FULLSCREEN /\ win.refreshes = 2 /\ Len(pets) = 2 /\ Len(win.old) = 2

\* The movement modes that are active.
Modes ==
  {m \in {"is_sliding", "is_edge_running", "_is_jumping", "_is_manual_moving"} : app[m]}

\* C34 (as stated): a dead pet stays dead until Revive is invoked, whatever
\* mouse, timer or control-box event occurs, and the Revive action is enabled
\* only while the pet is dead.
C34_Original ==
  /\ [][ (app.is_dead /\ ~app'.is_dead) => op' = "revive" ]_vars
  /\ [](app.revive_enabled => app.is_dead)

\* C35 (as stated): whenever the pet is not dead and its sprites are loaded,
\* the movement timer and the animation timer are running.
C35_Original ==
  (app.sprites # {} /\ ~app.is_dead) => (app.movement_timer /\ app.animation_timer)

\* C36 (as stated): at most one of is_sliding, is_edge_running, _is_jumping
\* and _is_manual_moving is true.
C36_Original == app.sprites # {} => Cardinality(Modes) <= 1

\* C37 (as stated): after construction on a mapping with a valid idle asset
\* the current state is idle and the sprite shows the idle movie, started;
\* whenever _current_state has a valid movie, that movie is the one set on
\* the sprite and it is running.
C37_Original ==
  (widget._current_state \in widget.valid) =>
     /\ widget.sprite = widget._current_state
     /\ widget._current_state \in widget.running
====
